---- MODULE Spec2Model ----
(***************************************************************************)
(* Background processing pipeline of backend/services/pipeline_worker.py:  *)
(* the processing_queue collection, enqueue_case, _claim_next_job,         *)
(* _process_stage, _finish_job, _fail_job and the worker loop that drives  *)
(* them.  Every MongoDB call (update_one, find_one_and_update) is one      *)
(* atomic step; a worker is interleaved with other workers and with the    *)
(* callers of enqueue_case between its calls.  The model also holds the    *)
(* one-to-many collections the stages write (case_chunks,                  *)
(* embeddings_metadata, the in-memory vector index, the relational fact    *)
(* rows) and the start() and stop() calls on the PipelineWorker.           *)
(***************************************************************************)
EXTENDS Integers, Sequences, FiniteSets, TLC

(* ------------------------------ bounds --------------------------------- *)

\* _utcnow() returns times from 0 to MaxClock.
MaxClock == 1

\* _fail_job is not taken once the stored attempts counter has reached this.
MaxAttempts == 4

\* Documents (raw_judgments _id values).
Docs == {"d1", "d2"}

\* The documents enqueue_case is called for again once they have a job.
RekickDocs == {"d1"}

\* Worker processes; the deployment of main.py runs the first one only.
Workers == {"w1", "w2"}

MainWorker == {"w1"}

\* The stage arguments given to enqueue_case.
EnqueueStages == {"embedded", "predicted"}

\* The stage argument upload_case passes to enqueue_case: one fixed stage. The
\* specifications of the queue start a case two stages before the end, those
\* of the whole pipeline at "extracted" as the code does.
FirstStages == {"embedded"}

UploadStages == {"extracted"}

\* bool(meta.get("petitioner") or meta.get("judge_names")) of the uploads.
EntitiesFound == {TRUE}

\* The exceptions of a stage in the specifications of the queue, and in those
\* of the whole pipeline.
MainFaults == {"Case not found in raw_judgments", "stage error"}

Faults == MainFaults \cup {"mysql error", "ai_outputs error"}

\* The documents of the specifications that run the whole pipeline, and of
\* those with a crash or a failing document write.
PipelineDocs == {"d1"}

\* _chunk_text's chunk_size and overlap, in words (180 and 40 in the code).
ChunkSize == 3

ChunkOverlap == 1

\* The number of words of an uploaded text, in the specifications of the
\* queue and in those of the whole pipeline.
MainLengths == {2}

PipelineLengths == {2, 6}

(* ------------------------- program constants --------------------------- *)

MAX_RETRIES == 3

WORKER_ID == "local-pipeline-worker"

\* A field that is absent from a MongoDB record ($unset, or never set).
NoTime == -1

NoWorker == "absent"

\* error: None
NoError == "None"

CaseNotFound == "Case not found in raw_judgments"

\* str(error) of an exception of the stage's own work: an AI call, or a write
\* to the stage's collection or to raw_judgments.
StageError == "stage error"

\* str(error) of an exception of _mysql_execute in a relational mirror write.
MirrorError == "mysql error"

\* str(error) of an exception of insert_one in _insert_ai_output.
AuditError == "ai_outputs error"

\* The value of the worker's local variable job before _claim_next_job returned.
NoJob == [_id |-> 0, case_id |-> "none", case_number |-> "none", stage |-> "none", attempts |-> 0]

CaseNumber(d) == d

\* sentences[:5] in _extract_facts
FactLimit == 5

\* The collections a new database and a new VectorStore start with.
NoDerived ==
    [case_chunks |-> <<>>, embeddings_metadata |-> <<>>,
     vector_index |-> <<>>, fact_rows |-> <<>>]

VARIABLES
    queue,          \* db["processing_queue"]: the job records, in insertion order
    raw_judgments,  \* db["raw_judgments"]: the Document of each case_id
    pc,             \* where each worker is in _loop / process_next_job
    job,            \* process_next_job's local job: the claimed snapshot
    next_stage,     \* process_next_job's local next_stage
    exc,            \* the exception caught by process_next_job
    derived,        \* the one-to-many collections the stages write
    stop_event,     \* PipelineWorker._stop_event of each worker process
    caller          \* the application around each PipelineWorker: its last call

vars == <<queue, raw_judgments, pc, job, next_stage, exc, derived, stop_event, caller>>

(* ---------------------------- the queue -------------------------------- *)

Max(S) == CHOOSE x \in S : \A y \in S : y <= x

\* The latest time stored in the collection.
Latest(q) ==
    Max({0} \cup UNION {{q[i].updated_at, q[i].created_at, q[i].started_at,
                          q[i].finished_at} : i \in DOMAIN q})

\* _utcnow(): the clock never runs backwards, so a call returns a time that is
\* not before any time stored earlier; several calls may read the same time.
UtcNow(q) == {t \in Latest(q) .. Latest(q) + 1 : t <= MaxClock}

\* The fields of the claimed record that process_next_job, _process_stage and
\* _fail_job read from their job argument.
Snapshot(j) ==
    [_id |-> j._id, case_id |-> j.case_id, case_number |-> j.case_number,
     stage |-> j.stage, attempts |-> j.attempts]

\* The records of the collection that match {"case_id": d}.
Matching(q, d) == {i \in DOMAIN q : q[i].case_id = d}

\* update_one matches the first record in natural order.
FirstMatch(q, d) == CHOOSE i \in Matching(q, d) : \A k \in Matching(q, d) : i <= k

\* The record an upsert inserts: the filter's equality fields, $set and $setOnInsert.
InsertedJob(q, d, stage, now) ==
    [_id |-> Len(q) + 1, case_id |-> d, case_number |-> CaseNumber(d),
     stage |-> stage, status |-> "pending", error |-> NoError,
     updated_at |-> now, attempts |-> 0, created_at |-> now,
     worker_id |-> NoWorker, started_at |-> NoTime, finished_at |-> NoTime]

\* enqueue_case without "error": None in its $set.
EnqueueSet_KeepError(j, d, stage, now) ==
    [j EXCEPT !.case_id = d, !.case_number = CaseNumber(d), !.stage = stage,
              !.status = "pending", !.updated_at = now]

\* enqueue_case with "attempts": 0 in its $set in place of its $setOnInsert.
EnqueueSet_ResetsAttempts(j, d, stage, now) ==
    [j EXCEPT !.case_id = d, !.case_number = CaseNumber(d), !.stage = stage,
              !.status = "pending", !.error = NoError, !.updated_at = now,
              !.attempts = 0]

\* The $set of enqueue_case applied to a record that exists.
EnqueueSet(j, d, stage, now) ==
    [j EXCEPT !.case_id = d, !.case_number = CaseNumber(d), !.stage = stage,
              !.status = "pending", !.error = NoError, !.updated_at = now]

\* enqueue_case with insert_one in place of the upsert.
EnqueueCase_InsertOnly(q, d, stage, now) ==
    Append(q, InsertedJob(q, d, stage, now))

\* enqueue_case: update_one({"case_id": d}, ..., upsert=True)
EnqueueCase(q, d, stage, now) ==
    IF Matching(q, d) = {}
    THEN Append(q, InsertedJob(q, d, stage, now))
    ELSE [q EXCEPT ![FirstMatch(q, d)] = EnqueueSet(@, d, stage, now)]

\* _claim_next_job with a filter that also matches a job in processing.
ClaimFilter_IncludeProcessing(j) == j.status \in {"pending", "retry", "processing"}

\* The filter of _claim_next_job.
ClaimFilter(j) == j.status \in {"pending", "retry"}

Eligible(q) == {i \in DOMAIN q : ClaimFilter(q[i])}

\* _claim_next_job with sort=[("updated_at", -1)].
ClaimOrder_NewestFirst(q) ==
    {i \in Eligible(q) : \A k \in Eligible(q) : q[i].updated_at >= q[k].updated_at}

\* sort=[("updated_at", 1)]: the records find_one_and_update may pick.
ClaimOrder(q) ==
    {i \in Eligible(q) : \A k \in Eligible(q) : q[i].updated_at <= q[k].updated_at}

\* _claim_next_job with "$inc": {"attempts": 1} added to its update.
ClaimSet_CountsAttempt(j, now) ==
    [j EXCEPT !.status = "processing", !.worker_id = WORKER_ID,
              !.started_at = now, !.updated_at = now, !.attempts = @ + 1]

\* The $set of _claim_next_job.
ClaimSet(j, now) ==
    [j EXCEPT !.status = "processing", !.worker_id = WORKER_ID,
              !.started_at = now, !.updated_at = now]

\* _finish_job without "stage" in the $set of its completed branch.
FinishUpdate_KeepStage(j, next, now) ==
    IF next = "completed"
    THEN [j EXCEPT !.status = "completed",
                   !.finished_at = now, !.updated_at = now,
                   !.worker_id = NoWorker, !.started_at = NoTime]
    ELSE [j EXCEPT !.stage = next, !.status = "pending", !.updated_at = now,
                   !.worker_id = NoWorker, !.started_at = NoTime]

\* _finish_job without "status" in the $set of its other branch.
FinishUpdate_KeepStatus(j, next, now) ==
    IF next = "completed"
    THEN [j EXCEPT !.stage = "completed", !.status = "completed",
                   !.finished_at = now, !.updated_at = now,
                   !.worker_id = NoWorker, !.started_at = NoTime]
    ELSE [j EXCEPT !.stage = next, !.updated_at = now,
                   !.worker_id = NoWorker, !.started_at = NoTime]

\* _finish_job with "attempts": 0 added to the $set of both branches.
FinishUpdate_ResetAttempts(j, next, now) ==
    IF next = "completed"
    THEN [j EXCEPT !.stage = "completed", !.status = "completed",
                   !.finished_at = now, !.updated_at = now, !.attempts = 0,
                   !.worker_id = NoWorker, !.started_at = NoTime]
    ELSE [j EXCEPT !.stage = next, !.status = "pending", !.updated_at = now,
                   !.attempts = 0,
                   !.worker_id = NoWorker, !.started_at = NoTime]

\* The update of _finish_job.
FinishUpdate(j, next, now) ==
    IF next = "completed"
    THEN [j EXCEPT !.stage = "completed", !.status = "completed",
                   !.finished_at = now, !.updated_at = now,
                   !.worker_id = NoWorker, !.started_at = NoTime]
    ELSE [j EXCEPT !.stage = next, !.status = "pending", !.updated_at = now,
                   !.worker_id = NoWorker, !.started_at = NoTime]

\* _fail_job with attempts > MAX_RETRIES in place of >=.
FailStatus_OffByOne(snapshot) ==
    IF snapshot.attempts + 1 > MAX_RETRIES THEN "failed" ELSE "retry"

\* status computed by _fail_job from the claimed snapshot.
FailStatus(snapshot) ==
    IF snapshot.attempts + 1 >= MAX_RETRIES THEN "failed" ELSE "retry"

\* _fail_job without its $unset of worker_id and started_at.
FailUpdate_KeepLease(j, snapshot, error, now) ==
    [j EXCEPT !.status = FailStatus(snapshot), !.error = error, !.updated_at = now,
              !.attempts = @ + 1]

\* _fail_job with a fast path: a missing document fails the job at once.
FailUpdate_FastPath(j, snapshot, error, now) ==
    [j EXCEPT !.status = IF error = CaseNotFound THEN "failed" ELSE FailStatus(snapshot),
              !.error = error, !.updated_at = now,
              !.attempts = @ + 1,
              !.worker_id = NoWorker, !.started_at = NoTime]

\* _fail_job that also writes the final stage, as _finish_job does.
FailUpdate_AlsoAdvances(j, snapshot, error, now) ==
    [j EXCEPT !.status = FailStatus(snapshot), !.error = error, !.updated_at = now,
              !.attempts = @ + 1, !.stage = "completed", !.finished_at = now,
              !.worker_id = NoWorker, !.started_at = NoTime]

\* _fail_job without "updated_at" in its $set.
FailUpdate_KeepTime(j, snapshot, error, now) ==
    [j EXCEPT !.status = FailStatus(snapshot), !.error = error,
              !.attempts = @ + 1,
              !.worker_id = NoWorker, !.started_at = NoTime]

\* The update of _fail_job on the queue record.
FailUpdate(j, snapshot, error, now) ==
    [j EXCEPT !.status = FailStatus(snapshot), !.error = error, !.updated_at = now,
              !.attempts = @ + 1,
              !.worker_id = NoWorker, !.started_at = NoTime]

(* ------------------------- the stage dispatcher ------------------------ *)

\* The value _process_stage returns for each job["stage"].
StageResult(stage) ==
    CASE stage = "uploaded"   -> "extracted"
      [] stage = "extracted"  -> "cleaned"
      [] stage = "cleaned"    -> "summarized"
      [] stage = "summarized" -> "translated"
      [] stage = "translated" -> "chunked"
      [] stage = "chunked"    -> "embedded"
      [] stage = "embedded"   -> "predicted"
      [] stage = "predicted"  -> "completed"
      [] OTHER                -> "completed"

\* The raw_judgments update of a stage: "uploaded" and unknown stages write nothing.
StageWrites(stage) == stage \notin {"uploaded", "completed"}

\* The entries of nlp_flags that upload_case creates.
NlpFlags ==
    {"text_cleaned", "entities_extracted", "summarized", "translated",
     "classified", "embedded", "chunks_created", "prediction_done"}

\* The nlp_flags entries that the raw_judgments update of a stage sets to True.
StageFlags(stage) ==
    CASE stage = "extracted"  -> {"text_cleaned"}
      [] stage = "cleaned"    -> {"entities_extracted", "summarized"}
      [] stage = "summarized" -> {"translated"}
      [] stage = "translated" -> {"chunks_created"}
      [] stage = "chunked"    -> {"embedded"}
      [] stage = "embedded"   -> {"prediction_done"}
      [] OTHER                -> {}

\* nlp_flags is modelled by the set of its entries that are True.
StageDocUpdate(doc, stage) ==
    IF StageWrites(stage)
    THEN [doc EXCEPT !.processing_status = StageResult(stage),
                     !.nlp_flags = @ \cup StageFlags(stage)]
    ELSE doc

NoDocument ==
    [exists |-> FALSE, processing_status |-> "absent", nlp_flags |-> {},
     clean_text |-> <<>>, error_logs |-> <<>>]

\* A text of n words: clean_text is modelled by the sequence of its words,
\* and every word is a sentence of its own.
Text(n) == [k \in 1 .. n |-> k]

\* The document upload_case inserts.
UploadedDocument(entities, text) ==
    [exists |-> TRUE, processing_status |-> "cleaned",
     nlp_flags |-> {"text_cleaned"} \cup
                   (IF entities THEN {"entities_extracted"} ELSE {}),
     clean_text |-> text, error_logs |-> <<>>]

\* The stages with a relational mirror write that no try/except encloses
\* (_insert_fact_rows, _upsert_summary, _upsert_translation,
\* _replace_similar_cases, _upsert_prediction); each comes before the stage's
\* raw_judgments update.
MirrorStages == {"cleaned", "summarized", "chunked", "embedded"}

\* The stages that call _insert_ai_output, after their raw_judgments update.
AuditStages == {"extracted", "cleaned", "summarized", "translated", "chunked", "embedded"}

\* The exceptions _process_stage can raise for a document that exists, each
\* with whether the stage's raw_judgments update was applied before it. The
\* writes of _log_system and _upsert_case_mysql catch their own exceptions:
\* their failure raises nothing.
StageRaises(stage) ==
    (IF StageWrites(stage) THEN {<<StageError, FALSE>>} ELSE {})
    \cup (IF stage \in MirrorStages THEN {<<MirrorError, FALSE>>} ELSE {})
    \cup (IF stage \in AuditStages THEN {<<AuditError, TRUE>>} ELSE {})

\* Whether the stage's writes to the derived collections were applied before
\* the exception: a StageError comes before them, the mirror write of stage
\* "chunked" (_replace_similar_cases) and _insert_ai_output come after them,
\* and the mirror write of stage "cleaned" is the write of the fact rows.
DerivedBefore(stage, error) ==
    \/ error = AuditError
    \/ error = MirrorError /\ stage = "chunked"

\* _fail_job with "$set": {"error_logs": [...]} in place of its $push.
FailDocUpdate_ReplacesLog(doc, error) ==
    IF doc.exists
    THEN [doc EXCEPT !.processing_status = "failed", !.error_logs = <<error>>]
    ELSE doc

\* update_one on raw_judgments in _fail_job: matches nothing when the document
\* is missing. The entry pushed to error_logs is the error text; the time in
\* front of it is left out.
FailDocUpdate(doc, error) ==
    IF doc.exists
    THEN [doc EXCEPT !.processing_status = "failed", !.error_logs = Append(@, error)]
    ELSE doc

(* ----------------------- the derived collections ----------------------- *)

\* The loop of _chunk_text from one start index on (indices from 0).
RECURSIVE ChunkFrom(_, _, _, _)
ChunkFrom(words, start, chunk_size, step) ==
    IF start >= Len(words)
    THEN <<>>
    ELSE LET end == IF start + chunk_size <= Len(words)
                    THEN start + chunk_size ELSE Len(words)
             chunk == SubSeq(words, start + 1, end)
         IN  IF end >= Len(words)
             THEN <<chunk>>
             ELSE <<chunk>> \o ChunkFrom(words, start + step, chunk_size, step)

\* _chunk_text(text, chunk_size, overlap)
ChunkText(words, chunk_size, overlap) ==
    ChunkFrom(words, 0, chunk_size, Max({1, chunk_size - overlap}))

\* _extract_facts(clean_text)
ExtractFacts(text) ==
    SubSeq(text, 1, IF Len(text) <= FactLimit THEN Len(text) ELSE FactLimit)

\* delete_many({"case_id": d}), DELETE ... WHERE case_id = d
DeleteCase(rows, d) == SelectSeq(rows, LAMBDA r : r.case_id # d)

\* find({"case_id": d}).sort("chunk_index", 1): the chunks are stored in the
\* order of their index.
FindCase(rows, d) == SelectSeq(rows, LAMBDA r : r.case_id = d)

\* Stage "translated" without its delete_many on case_chunks.
ChunkWrites_NoDelete(dv, d, text) ==
    LET chunks == ChunkText(text, ChunkSize, ChunkOverlap)
    IN  [dv EXCEPT !.case_chunks =
            @ \o [k \in 1 .. Len(chunks) |->
                    [case_id |-> d, chunk_index |-> k - 1, text |-> chunks[k]]]]

\* Stage "translated": delete_many and insert_many on case_chunks.
ChunkWrites(dv, d, text) ==
    LET chunks == ChunkText(text, ChunkSize, ChunkOverlap)
    IN  [dv EXCEPT !.case_chunks =
            DeleteCase(@, d) \o
            [k \in 1 .. Len(chunks) |->
                [case_id |-> d, chunk_index |-> k - 1, text |-> chunks[k]]]]

\* Stage "chunked": delete_many on embeddings_metadata, then for every chunk
\* of the case vector_store.add_case and insert_one into embeddings_metadata.
\* get_embedding returns a vector for every text that is not empty.
EmbeddingWrites(dv, d) ==
    LET chunks == FindCase(dv.case_chunks, d)
    IN  [dv EXCEPT
           !.embeddings_metadata =
               DeleteCase(@, d) \o
               [k \in 1 .. Len(chunks) |->
                   [case_id |-> d, chunk_index |-> chunks[k].chunk_index]],
           !.vector_index =
               @ \o [k \in 1 .. Len(chunks) |->
                       [case_id |-> CaseNumber(d), text |-> chunks[k].text]]]

\* Stage "cleaned" of a case with a relational row: DELETE FROM case_facts
\* and _insert_fact_rows.
FactWrites(dv, d, text) ==
    LET facts == ExtractFacts(text)
    IN  [dv EXCEPT !.fact_rows =
            DeleteCase(@, d) \o
            [k \in 1 .. Len(facts) |->
                [case_id |-> d, fact_type |-> k, fact_text |-> facts[k]]]]

\* What one execution of a stage does to the derived collections.
StageDerived(dv, d, doc, stage) ==
    CASE stage = "cleaned"    -> FactWrites(dv, d, doc.clean_text)
      [] stage = "translated" -> ChunkWrites(dv, d, doc.clean_text)
      [] stage = "chunked"    -> EmbeddingWrites(dv, d)
      [] OTHER                -> dv

(* ------------------------------ actions -------------------------------- *)

\* A worker holds a job from the return of _claim_next_job to the end of
\* _finish_job or _fail_job.
Holding(w) == pc[w] \in {"stage", "finish", "fail"}

\* self._thread.is_alive(): the thread has not left _loop, by its return, by
\* an exception or by the end of the process.
Alive(w) == pc[w] \notin {"exited", "raised", "crashed"}

\* _loop with "while True": the event is never tested.
LoopTest_IgnoresEvent(w) == "idle"

\* _loop: while not self._stop_event.is_set(). The test is taken with the
\* step that precedes it: at "idle" the thread has passed the test and is
\* about to call process_next_job.
LoopTest(w) == IF stop_event[w] THEN "exited" ELSE "idle"

\* The state after the startup of main.py: pipeline_worker.start() has run.
Init ==
    /\ queue = <<>>
    /\ raw_judgments = [d \in Docs |-> NoDocument]
    /\ pc = [w \in Workers |-> "idle"]
    /\ job = [w \in Workers |-> NoJob]
    /\ next_stage = [w \in Workers |-> "none"]
    /\ exc = [w \in Workers |-> NoError]
    /\ derived = NoDerived
    /\ stop_event = [w \in Workers |-> FALSE]
    /\ caller = [w \in Workers |-> "started"]

\* upload_case: insert_one into raw_judgments. The _id is new: the case has
\* neither a document nor a job.
InsertDocument(d, entities, text) ==
    /\ ~raw_judgments[d].exists
    /\ Matching(queue, d) = {}
    /\ raw_judgments' = [raw_judgments EXCEPT ![d] = UploadedDocument(entities, text)]
    /\ UNCHANGED <<queue, pc, job, next_stage, exc, derived, stop_event, caller>>

\* enqueue_case for a case_id that has no job: the upsert inserts.
Enqueue(d, stage) ==
    /\ Matching(queue, d) = {}
    /\ \E now \in UtcNow(queue) : queue' = EnqueueCase(queue, d, stage, now)
    /\ UNCHANGED <<raw_judgments, pc, job, next_stage, exc, derived, stop_event, caller>>

\* upload_case: enqueue_case(case_id, case_number, stage=...) for the document
\* it has inserted.
UploadEnqueue(d, stage) ==
    /\ raw_judgments[d].exists
    /\ Enqueue(d, stage)

\* enqueue_case for a case_id that has a job, whatever its status: the upsert updates.
Rekick(d, stage) ==
    /\ Matching(queue, d) # {}
    /\ \E now \in UtcNow(queue) : queue' = EnqueueCase(queue, d, stage, now)
    /\ UNCHANGED <<raw_judgments, pc, job, next_stage, exc, derived, stop_event, caller>>

\* process_next_job: job = _claim_next_job(), a job was found.
Claim(w) ==
    /\ pc[w] = "idle"
    /\ \E i \in ClaimOrder(queue), now \in UtcNow(queue) :
          /\ queue' = [queue EXCEPT ![i] = ClaimSet(@, now)]
          /\ job' = [job EXCEPT ![w] = Snapshot(queue'[i])]
    /\ pc' = [pc EXCEPT ![w] = "stage"]
    /\ UNCHANGED <<raw_judgments, next_stage, exc, derived, stop_event, caller>>

\* process_next_job: _claim_next_job() returned None; return False, and _loop sleeps.
ClaimNone(w) ==
    /\ pc[w] = "idle"
    /\ ClaimOrder(queue) = {}
    /\ pc' = [pc EXCEPT ![w] = "sleep"]
    /\ UNCHANGED <<queue, raw_judgments, job, next_stage, exc, derived, stop_event, caller>>

\* _loop: time.sleep(WORKER_POLL_SECONDS) ends.
Wake(w) ==
    /\ pc[w] = "sleep"
    /\ pc' = [pc EXCEPT ![w] = LoopTest(w)]
    /\ UNCHANGED <<queue, raw_judgments, job, next_stage, exc, derived, stop_event, caller>>

\* _process_stage(job) returns the next stage.
StageReturn(w) ==
    /\ pc[w] = "stage"
    /\ raw_judgments[job[w].case_id].exists
    /\ raw_judgments' = [raw_judgments EXCEPT
                           ![job[w].case_id] = StageDocUpdate(@, job[w].stage)]
    /\ derived' = StageDerived(derived, job[w].case_id,
                                raw_judgments[job[w].case_id], job[w].stage)
    /\ next_stage' = [next_stage EXCEPT ![w] = StageResult(job[w].stage)]
    /\ pc' = [pc EXCEPT ![w] = "finish"]
    /\ UNCHANGED <<queue, job, exc, stop_event, caller>>

\* _process_stage(job) raises: the document is missing, or a call of the
\* stage raises before or after the stage's raw_judgments update. The except
\* clause of process_next_job catches it.
StageRaise(w, error) ==
    /\ pc[w] = "stage"
    /\ exc' = [exc EXCEPT ![w] = error]
    /\ IF ~raw_judgments[job[w].case_id].exists
       THEN /\ error = CaseNotFound
            /\ UNCHANGED <<raw_judgments, derived>>
       ELSE \E r \in StageRaises(job[w].stage) :
               /\ error = r[1]
               /\ raw_judgments' =
                     IF r[2]
                     THEN [raw_judgments EXCEPT
                             ![job[w].case_id] = StageDocUpdate(@, job[w].stage)]
                     ELSE raw_judgments
               /\ derived' =
                     IF DerivedBefore(job[w].stage, error)
                     THEN StageDerived(derived, job[w].case_id,
                                       raw_judgments[job[w].case_id], job[w].stage)
                     ELSE derived
    /\ pc' = [pc EXCEPT ![w] = "fail"]
    /\ UNCHANGED <<queue, job, next_stage, stop_event, caller>>

\* _finish_job(job["_id"], next_stage)
Finish(w) ==
    /\ pc[w] = "finish"
    /\ \E now \in UtcNow(queue) :
          queue' = [queue EXCEPT ![job[w]._id] = FinishUpdate(@, next_stage[w], now)]
    /\ pc' = [pc EXCEPT ![w] = LoopTest(w)]
    /\ job' = [job EXCEPT ![w] = NoJob]
    /\ next_stage' = [next_stage EXCEPT ![w] = "none"]
    /\ UNCHANGED <<raw_judgments, exc, derived, stop_event, caller>>

\* _fail_job(job, exc): the update of the queue record and of the document.
Fail(w) ==
    /\ pc[w] = "fail"
    /\ queue[job[w]._id].attempts < MaxAttempts
    /\ \E now \in UtcNow(queue) :
          queue' = [queue EXCEPT ![job[w]._id] = FailUpdate(@, job[w], exc[w], now)]
    /\ raw_judgments' = [raw_judgments EXCEPT
                           ![job[w].case_id] = FailDocUpdate(@, exc[w])]
    /\ pc' = [pc EXCEPT ![w] = LoopTest(w)]
    /\ job' = [job EXCEPT ![w] = NoJob]
    /\ exc' = [exc EXCEPT ![w] = NoError]
    /\ UNCHANGED <<next_stage, derived, stop_event, caller>>

\* _fail_job(job, exc) when update_one on raw_judgments raises: the queue
\* record is updated, the exception leaves _fail_job, process_next_job (the
\* call is in its except clause) and _loop, and the worker thread ends.
FailDocWriteRaises(w) ==
    /\ pc[w] = "fail"
    /\ queue[job[w]._id].attempts < MaxAttempts
    /\ \E now \in UtcNow(queue) :
          queue' = [queue EXCEPT ![job[w]._id] = FailUpdate(@, job[w], exc[w], now)]
    /\ pc' = [pc EXCEPT ![w] = "raised"]
    /\ job' = [job EXCEPT ![w] = NoJob]
    /\ exc' = [exc EXCEPT ![w] = NoError]
    /\ UNCHANGED <<raw_judgments, next_stage, derived, stop_event, caller>>

\* The worker process is killed between _claim_next_job and the update of
\* _finish_job or _fail_job: nothing is written.
Crash(w) ==
    /\ Holding(w)
    /\ pc' = [pc EXCEPT ![w] = "crashed"]
    /\ job' = [job EXCEPT ![w] = NoJob]
    /\ next_stage' = [next_stage EXCEPT ![w] = "none"]
    /\ exc' = [exc EXCEPT ![w] = NoError]
    /\ UNCHANGED <<queue, raw_judgments, derived, stop_event, caller>>

\* PipelineWorker.start() when no worker thread is alive (in a process that
\* runs, or at the startup of a new one): the event is cleared and a new
\* thread runs _loop.
Start(w) ==
    /\ caller[w] # "stopping"
    /\ ~Alive(w)
    /\ stop_event' = [stop_event EXCEPT ![w] = FALSE]
    /\ pc' = [pc EXCEPT ![w] = "idle"]
    /\ caller' = [caller EXCEPT ![w] = "started"]
    /\ UNCHANGED <<queue, raw_judgments, job, next_stage, exc, derived>>

\* PipelineWorker.start() when the worker thread is alive: it returns at once.
StartAlive(w) ==
    /\ caller[w] # "stopping"
    /\ Alive(w)
    /\ caller' = [caller EXCEPT ![w] = "started"]
    /\ UNCHANGED <<queue, raw_judgments, pc, job, next_stage, exc, derived, stop_event>>

\* PipelineWorker.stop(): self._stop_event.set(), then the join begins.
Stop(w) ==
    /\ caller[w] # "stopping"
    /\ stop_event' = [stop_event EXCEPT ![w] = TRUE]
    /\ caller' = [caller EXCEPT ![w] = "stopping"]
    /\ UNCHANGED <<queue, raw_judgments, pc, job, next_stage, exc, derived>>

\* PipelineWorker.stop() returns: the thread is not alive, or join(timeout=5)
\* ran out. A poll sleep and the queue calls are shorter than the timeout; a
\* stage can be longer.
StopReturn(w) ==
    /\ caller[w] = "stopping"
    /\ ~Alive(w) \/ pc[w] = "stage"
    /\ caller' = [caller EXCEPT ![w] = "stopped"]
    /\ UNCHANGED <<queue, raw_judgments, pc, job, next_stage, exc, derived, stop_event>>

\* The shutdown of main.py after stop() has returned: the process ends, and
\* with it the daemon thread if it is still alive.
Shutdown(w) ==
    /\ caller[w] = "stopped"
    /\ Alive(w)
    /\ pc' = [pc EXCEPT ![w] = "crashed"]
    /\ job' = [job EXCEPT ![w] = NoJob]
    /\ next_stage' = [next_stage EXCEPT ![w] = "none"]
    /\ exc' = [exc EXCEPT ![w] = NoError]
    /\ UNCHANGED <<queue, raw_judgments, derived, stop_event, caller>>

(* --------------------------- specifications ---------------------------- *)

\* The deployment of main.py: one worker thread; upload_case inserts the
\* document of a case and enqueues it, and enqueue_case is called again for
\* the cases of RekickDocs.
Next ==
    \/ \E d \in Docs, e \in EntitiesFound, n \in MainLengths : InsertDocument(d, e, Text(n))
    \/ \E d \in Docs, stage \in FirstStages : UploadEnqueue(d, stage)
    \/ \E d \in RekickDocs, stage \in EnqueueStages : Rekick(d, stage)
    \/ \E w \in MainWorker : Claim(w)
    \/ \E w \in MainWorker : ClaimNone(w)
    \/ \E w \in MainWorker : Wake(w)
    \/ \E w \in MainWorker : StageReturn(w)
    \/ \E w \in MainWorker, error \in MainFaults : StageRaise(w, error)
    \/ \E w \in MainWorker : Finish(w)
    \/ \E w \in MainWorker : Fail(w)

Spec == Init /\ [][Next]_vars

\* Several worker processes on one queue; every case is enqueued once, with
\* or without a document in raw_judgments.
NextClaim ==
    \/ \E d \in Docs, e \in EntitiesFound, n \in MainLengths : InsertDocument(d, e, Text(n))
    \/ \E d \in Docs, stage \in EnqueueStages : Enqueue(d, stage)
    \/ \E w \in Workers : Claim(w)
    \/ \E w \in Workers : ClaimNone(w)
    \/ \E w \in Workers : Wake(w)
    \/ \E w \in Workers : StageReturn(w)
    \/ \E w \in Workers, error \in MainFaults : StageRaise(w, error)
    \/ \E w \in Workers : Finish(w)
    \/ \E w \in Workers : Fail(w)

SpecClaim == Init /\ [][NextClaim]_vars

\* Several worker processes on one queue, and enqueue_case called again for
\* the cases of RekickDocs while the workers run.
NextWorkers ==
    \/ \E d \in RekickDocs, e \in EntitiesFound, n \in MainLengths :
          InsertDocument(d, e, Text(n))
    \/ \E d \in RekickDocs, stage \in EnqueueStages : Enqueue(d, stage)
    \/ \E d \in RekickDocs, stage \in EnqueueStages : Rekick(d, stage)
    \/ \E w \in Workers : Claim(w)
    \/ \E w \in Workers : ClaimNone(w)
    \/ \E w \in Workers : Wake(w)
    \/ \E w \in Workers : StageReturn(w)
    \/ \E w \in Workers, error \in MainFaults : StageRaise(w, error)
    \/ \E w \in Workers : Finish(w)
    \/ \E w \in Workers : Fail(w)

SpecWorkers == Init /\ [][NextWorkers]_vars

\* One worker and the whole pipeline: every case is uploaded and enqueued at
\* stage extracted, and whether a case names its parties varies.
NextPipeline ==
    \/ \E d \in PipelineDocs, e \in BOOLEAN, n \in PipelineLengths :
          InsertDocument(d, e, Text(n))
    \/ \E d \in PipelineDocs, stage \in UploadStages : UploadEnqueue(d, stage)
    \/ \E w \in MainWorker : Claim(w)
    \/ \E w \in MainWorker : ClaimNone(w)
    \/ \E w \in MainWorker : Wake(w)
    \/ \E w \in MainWorker : StageReturn(w)
    \/ \E w \in MainWorker, error \in Faults : StageRaise(w, error)
    \/ \E w \in MainWorker : Finish(w)
    \/ \E w \in MainWorker : Fail(w)

SpecPipeline == Init /\ [][NextPipeline]_vars

\* A step of the worker thread. _loop calls process_next_job again whenever it
\* returns, and every call it makes returns or raises.
LoopStep(w) ==
    \/ Claim(w)
    \/ ClaimNone(w)
    \/ Wake(w)
    \/ StageReturn(w)
    \/ Finish(w)

\* The pipeline when no stage raises, with a worker thread that keeps running.
NextUpload ==
    \/ \E d \in Docs, e \in BOOLEAN, n \in PipelineLengths : InsertDocument(d, e, Text(n))
    \/ \E d \in Docs, stage \in UploadStages : UploadEnqueue(d, stage)
    \/ \E w \in MainWorker : LoopStep(w)

SpecUpload == Init /\ [][NextUpload]_vars /\ \A w \in MainWorker : WF_vars(LoopStep(w))

\* A step of a worker that is running or is started again: the stage returns
\* or raises, _fail_job returns or raises on its document write.
RunStep(w) ==
    \/ LoopStep(w)
    \/ \E error \in MainFaults : StageRaise(w, error)
    \/ Fail(w)
    \/ FailDocWriteRaises(w)
    \/ Start(w)

\* One worker that may be killed while it holds a job, or end by the exception
\* of a document write in _fail_job, and is started again.
NextCrash ==
    \/ \E d \in PipelineDocs, e \in EntitiesFound, n \in MainLengths :
          InsertDocument(d, e, Text(n))
    \/ \E d \in PipelineDocs, stage \in EnqueueStages : Enqueue(d, stage)
    \/ \E w \in MainWorker : RunStep(w)
    \/ \E w \in MainWorker : Crash(w)

SpecCrash == Init /\ [][NextCrash]_vars /\ \A w \in MainWorker : WF_vars(RunStep(w))

\* A step of the worker thread while it is alive.
ThreadStep(w) ==
    \/ LoopStep(w)
    \/ \E error \in MainFaults : StageRaise(w, error)
    \/ Fail(w)

\* The calls of main.py on its PipelineWorker: start() at startup, stop() at
\* shutdown, in any sequence, while cases are uploaded and the thread runs.
\* The thread keeps running while it is alive, and stop() returns.
NextLifecycle ==
    \/ \E d \in PipelineDocs, e \in EntitiesFound, n \in MainLengths :
          InsertDocument(d, e, Text(n))
    \/ \E d \in PipelineDocs, stage \in FirstStages : UploadEnqueue(d, stage)
    \/ \E w \in MainWorker : ThreadStep(w)
    \/ \E w \in MainWorker : Start(w)
    \/ \E w \in MainWorker : StartAlive(w)
    \/ \E w \in MainWorker : Stop(w)
    \/ \E w \in MainWorker : StopReturn(w)
    \/ \E w \in MainWorker : Shutdown(w)

SpecLifecycle ==
    /\ Init
    /\ [][NextLifecycle]_vars
    /\ \A w \in MainWorker : WF_vars(ThreadStep(w)) /\ WF_vars(StopReturn(w))

(* ------------------------------- claims -------------------------------- *)

\* The jobs _claim_next_job may select, by their stored status.
PendingOrRetry(q) == {i \in DOMAIN q : q[i].status \in {"pending", "retry"}}

\* C1: no two workers hold the same job at the same time.
C1_NoSharedJob ==
    \A w1, w2 \in Workers :
        (w1 # w2 /\ Holding(w1) /\ Holding(w2)) => job[w1]._id # job[w2]._id

\* C1: a call of _claim_next_job returns None when no job is pending or retry;
\* otherwise it returns one such job, which is in processing afterwards and is
\* held by no other worker, and it changes no other record.
C1_ClaimStep ==
    \A w \in Workers :
        (pc[w] = "idle" /\ pc'[w] # "idle") =>
            IF PendingOrRetry(queue) = {}
            THEN pc'[w] = "sleep" /\ queue' = queue
            ELSE /\ pc'[w] = "stage"
                 /\ job'[w]._id \in PendingOrRetry(queue)
                 /\ queue'[job'[w]._id].status = "processing"
                 /\ \A i \in DOMAIN queue : i # job'[w]._id => queue'[i] = queue[i]
                 /\ \A v \in Workers \ {w} : Holding(v) => job[v]._id # job'[w]._id

\* C1: with several workers calling _claim_next_job concurrently a job is
\* handed to at most one of them: two workers never hold the same job, and
\* when one job is eligible and two claims race, the first claim returns it
\* and leaves no eligible job, so the second returns None.
C1_ExclusiveClaim == [](C1_NoSharedJob) /\ [][C1_ClaimStep]_vars

\* Two claims on a queue of one job: one worker holds it, the other got None.
C1_Witness ==
    /\ Len(queue) = 1
    /\ queue[1].status = "processing"
    /\ \E w1, w2 \in Workers :
          /\ pc[w1] = "stage" /\ job[w1]._id = 1
          /\ pc[w2] = "sleep"

\* C2: at most one execution of _process_stage is in progress for a document
\* at any instant, under every interleaving of enqueue, claim, stage
\* execution, finish and fail.
C2_OneStagePerDocument ==
    \A w1, w2 \in Workers :
        (w1 # w2 /\ pc[w1] = "stage" /\ pc[w2] = "stage")
            => job[w1].case_id # job[w2].case_id

\* The worker lease of a job record: worker_id and started_at.
LeaseSet(j) == j.worker_id # NoWorker /\ j.started_at # NoTime

\* C3: a job has status processing if and only if its lease (worker_id and
\* started_at) is set.
C3_LeaseIffProcessing ==
    \A i \in DOMAIN queue : (queue[i].status = "processing") <=> LeaseSet(queue[i])

\* C4: there is at most one job record per document_id.
C4_OneJobPerDocument ==
    \A d \in Docs : Cardinality({i \in DOMAIN queue : queue[i].case_id = d}) <= 1

\* Both documents have a job, and one was enqueued again after a failure
\* (pending with attempts counted and the error cleared).
C4_Witness ==
    /\ Len(queue) = 2
    /\ \E i \in DOMAIN queue :
          /\ queue[i].status = "pending"
          /\ queue[i].attempts >= 1
          /\ queue[i].error = NoError

\* The sequences of jobs that repeated calls of _claim_next_job return, with
\* no other operation in between, until it returns None.
RECURSIVE ClaimRuns(_)
ClaimRuns(q) ==
    IF ClaimOrder(q) = {}
    THEN {<<>>}
    ELSE UNION {{<<i>> \o r : r \in ClaimRuns([q EXCEPT ![i] = ClaimSet(@, now)])} :
                   i \in ClaimOrder(q), now \in UtcNow(q)}

\* C5: repeated claims on a queue holding N jobs in pending or retry return
\* each of the N jobs exactly once, in ascending order of updated_at, and
\* nothing else, before returning None.
C5_EachOnceOldestFirst ==
    \A r \in ClaimRuns(queue) :
        /\ Len(r) = Cardinality(PendingOrRetry(queue))
        /\ {r[k] : k \in 1 .. Len(r)} = PendingOrRetry(queue)
        /\ \A a, b \in 1 .. Len(r) :
              a < b => queue[r[a]].updated_at <= queue[r[b]].updated_at

\* Two eligible jobs, one pending and one retry, with different updated_at,
\* after a claim has been made and failed.
C5_Witness ==
    \E i, k \in DOMAIN queue :
        /\ queue[i].status = "pending"
        /\ queue[k].status = "retry"
        /\ queue[i].updated_at # queue[k].updated_at

\* The steps of process_next_job, and a call of enqueue_case that changes
\* record i (no worker moves).
ClaimStep(w) == pc[w] = "idle" /\ pc'[w] = "stage"

FinishStep(w) == pc[w] = "finish" /\ pc'[w] = "idle"

FailStep(w) == pc[w] = "fail" /\ pc'[w] = "idle"

EnqueueStepOn(i) ==
    /\ pc' = pc
    /\ queue'[i].status = "pending"
    /\ queue'[i].error = NoError

\* C6: a job starts with attempts 0, attempts never decreases and each fail()
\* adds one; the fail() that brings attempts to MAX_RETRIES or more leaves the
\* job failed.
C6_FailCounts ==
    /\ \A i \in DOMAIN queue' :
          IF i \in DOMAIN queue
          THEN queue'[i].attempts >= queue[i].attempts
          ELSE queue'[i].attempts = 0
    /\ \A w \in Workers :
          FailStep(w) =>
              /\ queue'[job[w]._id].attempts = queue[job[w]._id].attempts + 1
              /\ queue'[job[w]._id].attempts >= MAX_RETRIES
                    => queue'[job[w]._id].status = "failed"

\* C6: a failed job stays failed until enqueue_case is called for it, and no
\* claim selects a failed job.
C6_FailedStays ==
    /\ \A i \in DOMAIN queue :
          queue[i].status = "failed"
              => (queue'[i].status = "failed" \/ EnqueueStepOn(i))
    /\ \A w \in Workers : ClaimStep(w) => queue[job'[w]._id].status # "failed"

\* C6: after MAX_RETRIES calls of fail() on a job its status is failed, and it
\* stays failed and is never claimed again until an explicit enqueue() for
\* its document.
C6_FailedAfterMaxRetries == [][C6_FailCounts]_vars /\ [][C6_FailedStays]_vars

\* A job failed by its third fail(), and a later claim attempt returned None.
C6_Witness ==
    /\ Len(queue) = 1
    /\ queue[1].status = "failed"
    /\ queue[1].attempts = MAX_RETRIES
    /\ queue[1].error # NoError
    /\ \E w \in Workers : pc[w] = "sleep"

\* C7 as stated: finish(job_id, "completed") sets status=completed and leaves
\* stage at the value it had before the call, and no later claim selects a job
\* that was completed (finished_at is set by that finish only).
C7_CompletedKeepsStage ==
    /\ [][\A w \in Workers :
             (FinishStep(w) /\ next_stage[w] = "completed") =>
                 /\ queue'[job[w]._id].status = "completed"
                 /\ queue'[job[w]._id].stage = queue[job[w]._id].stage]_vars
    /\ [][\A w \in Workers :
             ClaimStep(w) => queue[job'[w]._id].finished_at = NoTime]_vars

\* C7 amended: finish(job_id, "completed") sets status=completed and sets
\* stage to "completed"; the job stays completed, and no claim selects it,
\* until an explicit enqueue() for its document.
C7_CompletedSetsStage ==
    /\ [][\A w \in Workers :
             (FinishStep(w) /\ next_stage[w] = "completed") =>
                 /\ queue'[job[w]._id].status = "completed"
                 /\ queue'[job[w]._id].stage = "completed"]_vars
    /\ [][\A i \in DOMAIN queue :
             queue[i].status = "completed"
                 => (queue'[i].status = "completed" \/ EnqueueStepOn(i))]_vars
    /\ [][\A w \in Workers :
             ClaimStep(w) => queue[job'[w]._id].status # "completed"]_vars

\* A job completed from stage predicted, and a later claim attempt returned None.
C7_Witness ==
    /\ Len(queue) = 1
    /\ queue[1].status = "completed"
    /\ queue[1].stage = "completed"
    /\ queue[1].finished_at # NoTime
    /\ raw_judgments[queue[1].case_id].processing_status = "completed"
    /\ \E w \in Workers : pc[w] = "sleep"

\* C8: each fail() increases attempts by exactly one, leaves stage unchanged,
\* clears the worker lease and stores the error text; the status is failed if
\* the incremented attempts is >= MAX_RETRIES and retry otherwise.
C8_FailEffect ==
    [][\A w \in Workers :
          FailStep(w) =>
              /\ queue'[job[w]._id].attempts = queue[job[w]._id].attempts + 1
              /\ queue'[job[w]._id].stage = queue[job[w]._id].stage
              /\ queue'[job[w]._id].worker_id = NoWorker
              /\ queue'[job[w]._id].started_at = NoTime
              /\ exc[w] # NoError
              /\ queue'[job[w]._id].error = exc[w]
              /\ queue'[job[w]._id].status =
                    IF queue'[job[w]._id].attempts >= MAX_RETRIES
                    THEN "failed" ELSE "retry"]_vars

\* One job left in retry by its first fail() and one left failed by its third.
C8_Witness ==
    \E i, k \in DOMAIN queue :
        /\ queue[i].status = "retry" /\ queue[i].attempts = 1
        /\ queue[i].error # NoError /\ ~LeaseSet(queue[i])
        /\ queue[k].status = "failed" /\ queue[k].attempts = MAX_RETRIES
        /\ queue[k].error # NoError /\ ~LeaseSet(queue[k])

\* C9: enqueue(document_id, case_identifier, stage) creates a job with
\* status=pending and attempts=0 when the document has no job; when a job
\* exists it sets stage to the given stage, status to pending and clears the
\* error, whatever the previous status; no other job changes.
C9_EnqueueEffect ==
    \A d \in Docs, stage \in EnqueueStages, now \in UtcNow(queue) :
        LET after == EnqueueCase(queue, d, stage, now)
            old == {i \in DOMAIN queue : queue[i].case_id = d}
        IN  /\ \A i \in DOMAIN queue : i \notin old => after[i] = queue[i]
            /\ IF old = {}
               THEN /\ Len(after) = Len(queue) + 1
                    /\ after[Len(after)].case_id = d
                    /\ after[Len(after)].case_number = CaseNumber(d)
                    /\ after[Len(after)].stage = stage
                    /\ after[Len(after)].status = "pending"
                    /\ after[Len(after)].attempts = 0
               ELSE /\ Len(after) = Len(queue)
                    /\ \A i \in old :
                          /\ after[i].stage = stage
                          /\ after[i].status = "pending"
                          /\ after[i].error = NoError

\* A job that had failed with an error stored was enqueued again, at a stage
\* other than the one it completed to or failed in.
C9_Witness ==
    \E i \in DOMAIN queue :
        /\ queue[i].status = "pending"
        /\ queue[i].attempts >= MAX_RETRIES
        /\ queue[i].error = NoError
        /\ queue[i].finished_at # NoTime
        /\ queue[i].stage = "embedded"

\* C10: finish(job_id, next_stage) with next_stage other than "completed" sets
\* stage=next_stage and status=pending and clears the lease, so the job is among
\* the jobs the next claim selects from and the worker is free to claim.
C10_FinishRequeues ==
    [][\A w \in Workers :
          (FinishStep(w) /\ next_stage[w] # "completed") =>
              /\ queue'[job[w]._id].stage = next_stage[w]
              /\ queue'[job[w]._id].status = "pending"
              /\ ~LeaseSet(queue'[job[w]._id])
              /\ queue'[job[w]._id].worker_id = NoWorker
              /\ queue'[job[w]._id].started_at = NoTime
              /\ job[w]._id \in PendingOrRetry(queue')
              /\ pc'[w] = "idle"]_vars

\* The job of a document that is never enqueued twice went from embedded to
\* predicted by a finish and waits for the next claim.
C10_Witness ==
    \E i \in DOMAIN queue :
        /\ queue[i].case_id \notin RekickDocs
        /\ queue[i].stage = "predicted"
        /\ queue[i].status = "pending"
        /\ ~LeaseSet(queue[i])
        /\ raw_judgments[queue[i].case_id].processing_status = "predicted"

\* The end of _process_stage(job): it returned or raised.
StageStep(w) == pc[w] = "stage" /\ pc'[w] \in {"finish", "fail"}

\* C11: the attempts counter of a job never decreases and changes only in
\* fail(): a step that changes it is the fail() of a worker for that job, and
\* claim, finish and stage execution leave every counter unchanged.
C11_AttemptsOnlyInFail ==
    [][/\ \A i \in DOMAIN queue :
             /\ queue'[i].attempts >= queue[i].attempts
             /\ queue'[i].attempts # queue[i].attempts
                   => \E w \in Workers : FailStep(w) /\ job[w]._id = i
       /\ \A w \in Workers :
             (ClaimStep(w) \/ StageStep(w) \/ FinishStep(w)) =>
                 \A i \in DOMAIN queue : queue'[i].attempts = queue[i].attempts]_vars

\* A job that failed twice was then claimed, executed and finished: it is
\* completed with attempts still 2.
C11_Witness ==
    \E i \in DOMAIN queue :
        /\ queue[i].status = "completed"
        /\ queue[i].attempts = 2
        /\ queue[i].worker_id = NoWorker

\* The stages in the order _process_stage moves a job through them.
StageOrder ==
    <<"uploaded", "extracted", "cleaned", "summarized", "translated",
      "chunked", "embedded", "predicted", "completed">>

StageRank(stage) == CHOOSE k \in DOMAIN StageOrder : StageOrder[k] = stage

\* C12: over any sequence of operations on a job its stage never moves to an
\* earlier position in the stage order, and a fail() that yields retry leaves
\* the stage exactly where it was.
C12_StageNeverBackward ==
    [][/\ \A i \in DOMAIN queue :
             StageRank(queue'[i].stage) >= StageRank(queue[i].stage)
       /\ \A w \in Workers :
             (FailStep(w) /\ queue'[job[w]._id].status = "retry")
                 => queue'[job[w]._id].stage = queue[job[w]._id].stage]_vars

\* A job that had completed, with its document completed, is back at stage
\* embedded after enqueue_case was called for it again.
C12_Witness ==
    \E i \in DOMAIN queue :
        /\ queue[i].stage = "embedded"
        /\ queue[i].finished_at # NoTime
        /\ raw_judgments[queue[i].case_id].processing_status = "completed"

\* The call _fail_job(job, exc) ended: it returned, or an exception left it.
FailCall(w) == pc[w] = "fail" /\ pc'[w] \in {"idle", "raised"}

\* C13: fail() never raises, even when the write to the Document fails: the
\* job's status, attempts and error are recorded and control returns to the
\* loop of the worker, which goes on to its next claim.
C13_FailNeverRaises ==
    [][\A w \in Workers :
          FailCall(w) =>
              /\ queue'[job[w]._id].attempts = queue[job[w]._id].attempts + 1
              /\ queue'[job[w]._id].status \in {"retry", "failed"}
              /\ queue'[job[w]._id].error = exc[w]
              /\ pc'[w] = "idle"]_vars

\* The document write of _fail_job raised: the job is in retry with its error
\* recorded, the document does not say failed, and the worker thread has ended.
C13_Witness ==
    \E w \in Workers, i \in DOMAIN queue :
        /\ pc[w] = "raised"
        /\ queue[i].status = "retry"
        /\ queue[i].error # NoError
        /\ raw_judgments[queue[i].case_id].exists
        /\ raw_judgments[queue[i].case_id].processing_status # "failed"

\* C14: no job is lost: every enqueued job eventually reaches status completed
\* or failed as long as a worker keeps running, also when a worker was killed
\* after it claimed the job and before finish() or fail(), and a worker was
\* started again afterwards.
C14_NoJobLost ==
    \A d \in PipelineDocs :
        (Matching(queue, d) # {})
            ~> (\E i \in Matching(queue, d) : queue[i].status \in {"completed", "failed"})

\* The worker was killed while it held the job and was started again: the job
\* is still in processing with its lease, and the claim of the new worker
\* returned None.
C14_Witness ==
    \E w \in Workers, i \in DOMAIN queue :
        /\ pc[w] = "sleep"
        /\ queue[i].status = "processing"
        /\ queue[i].worker_id = WORKER_ID
        /\ \A v \in Workers : ~Holding(v)

\* C15: for a document ingested by upload and enqueued at stage extracted
\* whose stage functions never raise, running the worker loop eventually
\* leaves the job with status completed, the document with processing_status
\* completed, and every entry of the document's nlp_flags true.
C15_UploadCompletesAllFlags ==
    \A d \in Docs :
        (Matching(queue, d) # {})
            ~> /\ \E i \in Matching(queue, d) : queue[i].status = "completed"
               /\ raw_judgments[d].processing_status = "completed"
               /\ raw_judgments[d].nlp_flags = NlpFlags

\* The pipeline ran to the end for a document uploaded without party names:
\* job and document are completed, and every entry of nlp_flags is true but
\* classified.
C15_Witness ==
    \E i \in DOMAIN queue :
        /\ queue[i].status = "completed"
        /\ queue[i].attempts = 0
        /\ raw_judgments[queue[i].case_id].processing_status = "completed"
        /\ raw_judgments[queue[i].case_id].nlp_flags = NlpFlags \ {"classified"}

\* No stage function runs for a document while another worker is between its
\* claim and its finish() or fail() for the same document.
OneAtATime ==
    \A w1, w2 \in Workers :
        (w1 # w2 /\ pc[w1] = "stage" /\ Holding(w2)) => job[w1].case_id # job[w2].case_id

\* finish() after a stage that returned stores the immediate successor of the
\* stage that was executed.
FinishSuccessor ==
    \A w \in Workers :
        FinishStep(w) =>
            StageRank(queue'[job[w]._id].stage) = StageRank(job[w].stage) + 1

\* C16: for one document the stage functions run in the fixed order and one at
\* a time: each successful execution advances the job's stage to the immediate
\* successor in the stage order, and the next stage does not start before
\* finish() of the previous one.
C16_FixedOrderOneAtATime == [](OneAtATime) /\ [][FinishSuccessor]_vars

\* One worker has executed stage embedded and has not called finish() yet,
\* while another worker executes a stage for the same document.
C16_Witness ==
    \E w1, w2 \in Workers :
        /\ pc[w1] = "finish" /\ next_stage[w1] = "predicted"
        /\ pc[w2] = "stage"
        /\ job[w1].case_id = job[w2].case_id

\* One call of process_next_job on record j alone: the claim (None when j is
\* not pending or retry), the stage, which raises or returns, and _fail_job or
\* _finish_job.
RunAttempt(j, raises, now) ==
    IF ~ClaimFilter(j)
    THEN j
    ELSE LET claimed == ClaimSet(j, now)
         IN  IF raises
             THEN FailUpdate(claimed, Snapshot(claimed), StageError, now)
             ELSE FinishUpdate(claimed, StageResult(claimed.stage), now)

RECURSIVE RunAttempts(_, _, _)
RunAttempts(j, outcomes, now) ==
    IF outcomes = <<>>
    THEN j
    ELSE RunAttempts(RunAttempt(j, Head(outcomes), now), Tail(outcomes), now)

\* C17: attempts is cumulative over the life of a job and a successful stage
\* does not reset it: a job with no failure yet that fails once in each of
\* three successive stages, with a successful finish after the first and the
\* second failure, is pending with attempts 2 before, and failed with attempts
\* 3 after, its third failure.
C17_CumulativeAttempts ==
    \A i \in DOMAIN queue, now \in UtcNow(queue) :
        (ClaimFilter(queue[i]) /\ queue[i].attempts = 0
            /\ StageRank(queue[i].stage) + 2 < Len(StageOrder)) =>
            LET before == RunAttempts(queue[i], <<TRUE, FALSE, TRUE, FALSE>>, now)
                after == RunAttempt(before, TRUE, now)
            IN  /\ before.status = "pending"
                /\ before.attempts = 2
                /\ before.stage = StageOrder[StageRank(queue[i].stage) + 2]
                /\ after.status = "failed"
                /\ after.attempts = MAX_RETRIES
                /\ after.stage = before.stage

\* A job enqueued at extracted has reached stage summarized and is failed
\* with attempts 3, the document having been cleaned and summarized.
C17_Witness ==
    \E i \in DOMAIN queue :
        /\ queue[i].status = "failed"
        /\ queue[i].attempts = MAX_RETRIES
        /\ queue[i].stage = "summarized"
        /\ queue[i].error = StageError
        /\ "summarized" \in raw_judgments[queue[i].case_id].nlp_flags
        /\ raw_judgments[queue[i].case_id].processing_status = "failed"

\* C18: when the document of a claimed job does not exist the stage raises and
\* the attempt goes through fail() and the same attempts counter as any other
\* error: the job becomes retry, which the next claim selects from, until the
\* incremented attempts reaches MAX_RETRIES, and only then failed.
C18_MissingDocumentCounts ==
    [][\A w \in Workers :
          /\ (StageStep(w) /\ ~raw_judgments[job[w].case_id].exists) =>
                 /\ pc'[w] = "fail"
                 /\ exc'[w] = CaseNotFound
                 /\ queue' = queue
          /\ (FailStep(w) /\ exc[w] = CaseNotFound) =>
                 /\ queue'[job[w]._id].attempts = queue[job[w]._id].attempts + 1
                 /\ queue'[job[w]._id].error = CaseNotFound
                 /\ IF queue'[job[w]._id].attempts >= MAX_RETRIES
                    THEN queue'[job[w]._id].status = "failed"
                    ELSE /\ queue'[job[w]._id].status = "retry"
                         /\ job[w]._id \in Eligible(queue')]_vars

\* The job of a case with no document failed three times on the missing
\* document and is failed; the job of another such case is in retry after its
\* first attempt.
C18_Witness ==
    \E i, k \in DOMAIN queue :
        /\ ~raw_judgments[queue[i].case_id].exists
        /\ queue[i].status = "failed"
        /\ queue[i].attempts = MAX_RETRIES
        /\ queue[i].error = CaseNotFound
        /\ ~raw_judgments[queue[k].case_id].exists
        /\ queue[k].status = "retry"
        /\ queue[k].attempts = 1
        /\ queue[k].error = CaseNotFound

\* The errors of the secondary writes of a stage: the relational mirror and
\* the audit record.
SecondaryErrors == {MirrorError, AuditError}

\* C19: a failure of a secondary write during a stage (a relational mirror
\* write, the audit record or the log write) never makes the job fail: no
\* attempt reaches fail() with such an error and no job records one.
C19_SecondaryWriteNeverFails ==
    /\ \A w \in Workers : pc[w] = "fail" => exc[w] \notin SecondaryErrors
    /\ \A i \in DOMAIN queue : queue[i].error \notin SecondaryErrors

\* The mirror write of stage cleaned raised: the job is in retry at cleaned
\* with the MySQL error counted as an attempt, and the document says failed.
C19_Witness ==
    \E i \in DOMAIN queue :
        /\ queue[i].stage = "cleaned"
        /\ queue[i].status = "retry"
        /\ queue[i].attempts = 1
        /\ queue[i].error = MirrorError
        /\ raw_judgments[queue[i].case_id].processing_status = "failed"

ChunksOf(dv, d) == FindCase(dv.case_chunks, d)

ExpectedChunks(d, text) ==
    [k \in 1 .. Len(ChunkText(text, ChunkSize, ChunkOverlap)) |->
        [case_id |-> d, chunk_index |-> k - 1,
         text |-> ChunkText(text, ChunkSize, ChunkOverlap)[k]]]

\* C21: the chunking stage (job stage "translated") run twice on the same
\* document leaves the chunks that one run leaves: the same collection, one
\* chunk per chunk_index with the text _chunk_text gives, and in every state
\* the case has either no chunk or exactly these.
C21_ChunkingIdempotent ==
    \A d \in Docs :
        raw_judgments[d].exists =>
            LET text == raw_judgments[d].clean_text
                once == ChunkWrites(derived, d, text)
                twice == ChunkWrites(once, d, text)
            IN  /\ twice.case_chunks = once.case_chunks
                /\ ChunksOf(once, d) = ExpectedChunks(d, text)
                /\ ChunksOf(derived, d) \in {<<>>, ExpectedChunks(d, text)}

\* The chunking stage has run to its raw_judgments update, the attempt failed
\* after it, and the worker has claimed the job at the same stage again: the
\* text has several chunks and they are stored.
C21_Witness ==
    \E w \in Workers :
        /\ pc[w] = "finish"
        /\ job[w].stage = "translated"
        /\ job[w].attempts >= 1
        /\ queue[job[w]._id].error = AuditError
        /\ raw_judgments[job[w].case_id].error_logs # <<>>
        /\ Len(ChunksOf(derived, job[w].case_id)) >= 2

\* The entries of a collection are pairwise different.
NoDuplicate(rows) ==
    \A a, b \in DOMAIN rows : a # b => rows[a] # rows[b]

\* C22: no one-to-many derived collection holds an entry twice, and a stage
\* run again on the state it has left leaves the collections as they are.
C22_NoDuplicateDerived ==
    /\ NoDuplicate(derived.case_chunks)
    /\ NoDuplicate(derived.embeddings_metadata)
    /\ NoDuplicate(derived.vector_index)
    /\ NoDuplicate(derived.fact_rows)
    /\ \A w \in Workers :
          pc[w] = "finish" =>
              StageDerived(derived, job[w].case_id,
                           raw_judgments[job[w].case_id], job[w].stage) = derived

\* The embedding stage (job stage "chunked") has run twice on the same chunks:
\* the vector index holds every chunk of the case twice.
C22_Witness ==
    \E w \in Workers :
        /\ pc[w] = "finish"
        /\ job[w].stage = "chunked"
        /\ Len(derived.embeddings_metadata) = Len(ChunksOf(derived, job[w].case_id))
        /\ Len(derived.vector_index) = 2 * Len(ChunksOf(derived, job[w].case_id))
        /\ Len(derived.vector_index) > 0

\* C23 as stated: once stop() has set the event, the worker claims no job.
C23_NoClaimAfterStop ==
    [][\A w \in Workers : stop_event[w] => ~ClaimStep(w)]_vars

\* Once the event is set the thread begins no iteration of _loop: it is at
\* the call of process_next_job only if it was there before.
NoNewIteration ==
    \A w \in Workers :
        (stop_event[w] /\ stop_event'[w] /\ pc'[w] = "idle") => pc[w] = "idle"

\* stop() touches neither the thread nor the job it holds.
StopLeavesAttempt ==
    \A w \in Workers :
        (caller[w] # caller'[w] /\ caller'[w] \in {"stopping", "stopped"}) =>
            /\ pc'[w] = pc[w]
            /\ job'[w] = job[w]
            /\ queue' = queue

\* C23, amended: after stop() is signalled the thread begins no new iteration
\* of its loop (it still makes the claim of an iteration whose loop test came
\* before the signal); stop() does not interrupt an attempt in flight, which
\* ends by _finish_job or _fail_job unless the process ends first; and stop()
\* returns, also while a stage is still executing.
C23_StopEndsLoop ==
    /\ [][NoNewIteration /\ StopLeavesAttempt]_vars
    /\ \A w \in MainWorker :
          /\ (stop_event[w] /\ Holding(w)) ~> (~Holding(w))
          /\ (caller[w] = "stopping") ~> (caller[w] = "stopped")

\* stop() has returned by its join timeout: the event is set and the stage of
\* a claimed job is still executing.
C23_Witness ==
    \E w \in MainWorker :
        /\ caller[w] = "stopped"
        /\ stop_event[w]
        /\ pc[w] = "stage"
        /\ queue[job[w]._id].status = "processing"

\* C29: if the last call on the PipelineWorker was start(), an eligible job is
\* eventually claimed by its thread (or another call follows).
C29_StartedLoopRuns ==
    \A w \in MainWorker :
        (caller[w] = "started" /\ Eligible(queue) # {})
            ~> (caller[w] # "started" \/ pc[w] = "stage")

\* The last call was start(), it came after a stop() that returned by its
\* timeout, the event is still set and the thread has left its loop, while a
\* job waits.
C29_Witness ==
    \E w \in MainWorker :
        /\ caller[w] = "started"
        /\ stop_event[w]
        /\ pc[w] = "exited"
        /\ Eligible(queue) # {}

\* _fail_job appends one entry, the error text, to the log of the document.
FailAppends ==
    \A w \in Workers :
        (FailCall(w) /\ raw_judgments[job[w].case_id].exists) =>
            raw_judgments'[job[w].case_id].error_logs =
                Append(raw_judgments[job[w].case_id].error_logs, exc[w])

\* No step removes or overwrites an entry, and only _fail_job adds one.
LogOnlyGrows ==
    \A d \in Docs :
        LET old == raw_judgments[d].error_logs
            new == raw_judgments'[d].error_logs
        IN  /\ Len(new) >= Len(old)
            /\ SubSeq(new, 1, Len(old)) = old
            /\ (new # old => \E w \in Workers : FailCall(w) /\ job[w].case_id = d)

\* A failed job's document shows processing_status failed.
FailedIsMirrored ==
    \A i \in DOMAIN queue :
        (queue[i].status = "failed" /\ raw_judgments[queue[i].case_id].exists) =>
            raw_judgments[queue[i].case_id].processing_status = "failed"

C25_StatusMirrorsJob ==
    \A i \in DOMAIN queue :
        LET doc == raw_judgments[queue[i].case_id]
        IN  (queue[i].status # "processing" /\ doc.exists) =>
                /\ doc.processing_status = "failed" <=> queue[i].status = "failed"
                /\ queue[i].status # "failed" => doc.processing_status = queue[i].stage

\* A job waits for its retry while its document shows failed.
C25_Witness ==
    \E i \in DOMAIN queue :
        /\ queue[i].status = "retry"
        /\ queue[i].attempts < MAX_RETRIES
        /\ raw_judgments[queue[i].case_id].exists
        /\ raw_judgments[queue[i].case_id].processing_status = "failed"

\* C26: when enqueue_case has set a job back to pending while a worker holds
\* it, the _finish_job or _fail_job that ends the attempt leaves the stage
\* given to that enqueue and the status pending.
C26_RekickSurvivesAttempt ==
    [][\A w \in Workers :
          (/\ FinishStep(w) \/ FailStep(w)
           /\ queue[job[w]._id].status = "pending") =>
              /\ queue'[job[w]._id].stage = queue[job[w]._id].stage
              /\ queue'[job[w]._id].status = "pending"]_vars

\* enqueue_case has re-kicked a job at another stage while its stage was
\* executing, and the stage has raised: _fail_job is about to run.
C26_Witness ==
    \E w \in Workers :
        /\ pc[w] = "fail"
        /\ queue[job[w]._id].status = "pending"
        /\ queue[job[w]._id].stage # job[w].stage

\* C27: a job in retry has fewer than MAX_RETRIES attempts and a failed job
\* has at least MAX_RETRIES: the status _fail_job decides from the claimed
\* snapshot agrees with the stored counter.
C27_StatusAgreesWithAttempts ==
    \A i \in DOMAIN queue :
        /\ queue[i].status = "retry" => queue[i].attempts < MAX_RETRIES
        /\ queue[i].status = "failed" => queue[i].attempts >= MAX_RETRIES

\* A job waits for a retry with its retries used up: the worker that failed
\* it last had claimed it when the counter was lower.
C27_Witness ==
    \E i \in DOMAIN queue :
        /\ queue[i].status = "retry"
        /\ queue[i].attempts >= MAX_RETRIES
        /\ \A w \in Workers : job[w]._id # i

\* enqueue_case on a job that exists keeps attempts and created_at.
EnqueueKeepsBudget ==
    \A i \in DOMAIN queue :
        (EnqueueStepOn(i) /\ queue'[i] # queue[i]) =>
            /\ queue'[i].attempts = queue[i].attempts
            /\ queue'[i].created_at = queue[i].created_at

\* A failure of a job whose retries are used up leaves it failed, not in retry.
SpentBudgetFails ==
    \A w \in Workers :
        (FailStep(w) /\ queue[job[w]._id].attempts >= MAX_RETRIES) =>
            /\ queue'[job[w]._id].status = "failed"
            /\ queue'[job[w]._id].attempts = queue[job[w]._id].attempts + 1

\* A failed job has used up its retries.
FailedHasNoBudget ==
    \A i \in DOMAIN queue : queue[i].status = "failed" => queue[i].attempts >= MAX_RETRIES

\* C28: enqueue_case on an existing job leaves attempts and created_at as they
\* are, so a job that was failed and is enqueued again has no retry left: its
\* next failure leaves it failed again.
C28_NoFreshRetryBudget ==
    [](FailedHasNoBudget) /\ [][EnqueueKeepsBudget /\ SpentBudgetFails]_vars

\* A job that was failed after MAX_RETRIES failures has been enqueued again,
\* claimed, and has failed once more: it is failed with one more attempt.
C28_Witness ==
    \E i \in DOMAIN queue :
        /\ queue[i].status = "failed"
        /\ queue[i].attempts = MAX_RETRIES + 1
        /\ queue[i].error = StageError

\* The queue after the worker has claimed job i at time now1 and ended the
\* attempt at time now2, by _finish_job or by _fail_job.
AttemptEnds(q, i, now1, now2) ==
    LET claimed == ClaimSet(q[i], now1)
    IN  {[q EXCEPT ![i] = FinishUpdate(claimed, StageResult(claimed.stage), now2)],
         [q EXCEPT ![i] = FailUpdate(claimed, Snapshot(claimed), StageError, now2)]}

\* The times _utcnow() can return for a claim on queue q, and for the end of
\* an attempt claimed at now1.
ClaimTimes(q) == Latest(q) .. Latest(q) + 1

EndTimes(now1) == now1 .. now1 + 1

\* C30 as stated: when the worker is about to claim and several jobs are
\* eligible, the job it claims is not claimed a second time while another job
\* that was eligible still waits.
C30_NoSecondClaimFirst ==
    \A w \in MainWorker :
        pc[w] = "idle" =>
            \A i \in ClaimOrder(queue) : \A k \in Eligible(queue) \ {i} :
                \A now1 \in ClaimTimes(queue) : \A now2 \in EndTimes(now1) :
                    \A q2 \in AttemptEnds(queue, i, now1, now2) :
                        i \notin ClaimOrder(q2)

\* C30, amended: the same, for an attempt that ends at a time later than the
\* updated_at of the waiting job; the next claim then goes to a job that was
\* waiting.
C30_WaitingJobIsNext ==
    \A w \in MainWorker :
        pc[w] = "idle" =>
            \A i \in ClaimOrder(queue) : \A k \in Eligible(queue) \ {i} :
                \A now1 \in ClaimTimes(queue) : \A now2 \in EndTimes(now1) :
                    \A q2 \in AttemptEnds(queue, i, now1, now2) :
                        now2 > queue[k].updated_at =>
                            /\ i \notin ClaimOrder(q2)
                            /\ ClaimOrder(q2) # {}
                            /\ ClaimOrder(q2) \subseteq Eligible(queue) \ {i}

\* One job has been claimed and has failed, and waits for its retry with a
\* later updated_at than a job that has not been claimed yet: the worker is
\* about to claim.
C30_Witness ==
    \E w \in MainWorker : \E i, k \in Eligible(queue) :
        /\ pc[w] = "idle"
        /\ queue[i].status = "retry"
        /\ queue[k].status = "pending" /\ queue[k].attempts = 0
        /\ queue[i].updated_at > queue[k].updated_at
        /\ ClaimOrder(queue) = {k}

====
